---- MODULE Spec2Model ----
(***************************************************************************)
(* A model of the TruSTAR connector (trustar_connector.py, Python 2).      *)
(*                                                                         *)
(* One connector instance serves one action invocation: the host builds    *)
(* the instance, calls initialize(), handle_action(param) and finalize().  *)
(* The remote service and the host are the environment: every HTTP         *)
(* response and every host return value is drawn from a bounded set.       *)
(***************************************************************************)
EXTENDS Integers, Sequences, FiniteSets, TLC

(***************************************************************************)
(* Bounds of the model.                                                    *)
(***************************************************************************)
\* Longest polling window, in hours, of a scheduled on_poll.
MaxHours == 2
\* Longest list of values of one indicator type in an ingestion payload.
MaxValues == 2
\* The save_artifact calls that may fail are among the first MaxFailing of an ingestion.
MaxFailing == 3
\* Largest prefix size handed to the IP validator.
MaxPrefix == 130

(***************************************************************************)
(* Constants of trustar_consts.py (the module is imported by the source;   *)
(* values are those the specification gives).                              *)
(***************************************************************************)
TRUSTAR_REST_RESP_SUCCESS == 200
TRUSTAR_REST_RESP_BAD_REQUEST == 400
TRUSTAR_REST_RESP_UNAUTHORIZED == 401
TRUSTAR_REST_RESP_RESOURCE_NOT_FOUND == 404
TRUSTAR_REST_RESP_TOO_LONG == 413
TRUSTAR_REST_RESP_INTERNAL_SERVER_ERROR == 500
TRUSTAR_REST_RESP_GATEWAY_TIMEOUT == 504

TRUSTAR_GENERATE_TOKEN_ENDPOINT == "/oauth/token"
TRUSTAR_HUNT_ACTIONS_ENDPOINT == "/1.x/reports/correlate"
TRUSTAR_GET_REPORT_ENDPOINT == "/1.x/reports/<id-lookup>"
TRUSTAR_SUBMIT_REPORT_ENDPOINT == "/1.x/reports"
TRUSTAR_SUBMIT_REPORT_ENDPOINT_1_2 == "/1.2/reports"
TRUSTAR_LATEST_IOC_ENDPOINT == "/1.x/indicators/latest"

\* ERROR_RESPONSE_DICT: status code -> default message (named by its constant).
ERROR_RESPONSE_DICT ==
    [c \in { TRUSTAR_REST_RESP_BAD_REQUEST, TRUSTAR_REST_RESP_UNAUTHORIZED,
             TRUSTAR_REST_RESP_RESOURCE_NOT_FOUND, TRUSTAR_REST_RESP_TOO_LONG,
             TRUSTAR_REST_RESP_INTERNAL_SERVER_ERROR, TRUSTAR_REST_RESP_GATEWAY_TIMEOUT } |->
        CASE c = TRUSTAR_REST_RESP_BAD_REQUEST -> "TRUSTAR_REST_RESP_BAD_REQUEST_MSG"
          [] c = TRUSTAR_REST_RESP_UNAUTHORIZED -> "TRUSTAR_REST_RESP_UNAUTHORIZED_MSG"
          [] c = TRUSTAR_REST_RESP_RESOURCE_NOT_FOUND -> "TRUSTAR_REST_RESP_RESOURCE_NOT_FOUND_MSG"
          [] c = TRUSTAR_REST_RESP_TOO_LONG -> "TRUSTAR_REST_RESP_TOO_LONG_MSG"
          [] c = TRUSTAR_REST_RESP_INTERNAL_SERVER_ERROR -> "TRUSTAR_REST_RESP_INTERNAL_SERVER_ERROR_MSG"
          [] OTHER -> "TRUSTAR_REST_RESP_GATEWAY_TIMEOUT_MSG"]

(***************************************************************************)
(* Python values.  A str is a sequence of one-character strings where the  *)
(* code searches inside it (the content-type header); elsewhere a TLA+     *)
(* string.  None is the string NONE.                                       *)
(***************************************************************************)
NONE == "<None>"

\* str.find(sub): the lowest 0-based index where sub occurs in s, else -1.
Find(s, sub) ==
    LET hits == { i \in 1..(Len(s) - Len(sub) + 1) :
                    \A j \in 1..Len(sub) : s[i + j - 1] = sub[j] }
    IN  IF hits = {} THEN -1
        ELSE (CHOOSE i \in hits : \A k \in hits : i <= k) - 1

Str_json == <<"j","s","o","n">>

\* The content-type headers the service may answer with; present = FALSE is a
\* response without the header (headers.get gives None).
CtAbsent == [present |-> FALSE, text |-> <<>>]
CtEmpty == [present |-> TRUE, text |-> <<>>]
CtAppJson == [present |-> TRUE,
              text |-> <<"a","p","p","l","i","c","a","t","i","o","n","/","j","s","o","n">>]
CtJsonCharset == [present |-> TRUE,
                  text |-> <<"t","e","x","t","/","j","s","o","n",";","u","t","f","8">>]
CtHtml == [present |-> TRUE, text |-> <<"t","e","x","t","/","h","t","m","l">>]
CtUpper == [present |-> TRUE,
            text |-> <<"a","p","p","l","i","c","a","t","i","o","n","/","J","S","O","N">>]
ContentTypes == { CtAbsent, CtEmpty, CtAppJson, CtJsonCharset, CtHtml, CtUpper }

(***************************************************************************)
(* HTTP responses.  A body is described by what json.loads makes of it:    *)
(* json = "invalid" (no JSON document), "dict", "list" or "scalar" (a JSON *)
(* string, number, boolean or null).  keys is the set of keys of a dict    *)
(* body; the other fields hold the values of the keys the code reads.      *)
(* text_formats and json_formats say whether str.format of a message of    *)
(* trustar_consts takes response.text and the strings json.loads gives: it *)
(* raises UnicodeEncodeError when the message is a byte string and the     *)
(* text holds a non-ASCII character.                                       *)
(***************************************************************************)
NoIndicators == [t \in {} |-> <<>>]

Body0 == [json |-> "invalid", keys |-> {}, message |-> "", access_token |-> "",
          items |-> <<>>, source |-> "", intervalSize |-> 0, queryDate |-> "",
          indicators |-> NoIndicators, report |-> <<>>, reportId |-> "",
          text_formats |-> TRUE, json_formats |-> TRUE]

BodyHtml == Body0
BodyScalar == [Body0 EXCEPT !.json = "scalar"]
BodyEmptyDict == [Body0 EXCEPT !.json = "dict"]
BodyMessage == [Body0 EXCEPT !.json = "dict", !.keys = {"message"}, !.message = "server says no"]
BodyEmptyList == [Body0 EXCEPT !.json = "list"]
\* Bodies with a non-ASCII character that a byte-string message cannot take.
BodyHtmlNonAscii == [BodyHtml EXCEPT !.text_formats = FALSE]
BodyMessageNonAscii ==
    [BodyMessage EXCEPT !.message = "nicht gefunden", !.text_formats = FALSE,
                        !.json_formats = FALSE]
BodyList2 == [Body0 EXCEPT !.json = "list", !.items = <<"r1", "r2">>]

BodyToken(tok) == [Body0 EXCEPT !.json = "dict", !.keys = {"access_token"}, !.access_token = tok]

\* What the requests library answers to a call.  getattr is what
\* getattr(requests, method) does: "found", "AttributeError" (the module has
\* no such attribute) or "Exception" (method is no attribute name).  exc =
\* TRUE is an exception out of request_func (no response object), sent whether
\* a request went out before it (a transport failure; FALSE when the attribute
\* found is no request function and the call raises TypeError); otherwise the
\* status code, content-type header and body.
Response(code, ct, body) ==
    [getattr |-> "found", exc |-> FALSE, sent |-> TRUE, status_code |-> code, ctype |-> ct,
     body |-> body]
TransportFailure ==
    [getattr |-> "found", exc |-> TRUE, sent |-> TRUE, status_code |-> 0, ctype |-> CtAbsent,
     body |-> Body0]

\* What response.json() gives: raises on a body that is no JSON document.
JsonRaises(resp) == resp.body.json = "invalid"
ParsedJson(resp) == [kind |-> resp.body.json, body |-> resp.body]
\* What response.text gives: the body as an opaque unicode string.
Text(resp) == [kind |-> "text", body |-> resp.body]
NoResponseData == [kind |-> "None", body |-> Body0]

IsDict(response_data) == response_data.kind = "dict"
IsList(response_data) == response_data.kind = "list"
\* dict.get(key, default) for the string-valued keys of a body.
DictGetMessage(response_data, default) ==
    IF "message" \in response_data.body.keys THEN response_data.body.message ELSE default

(***************************************************************************)
(* action_result.set_status(APP_ERROR, message, ...): the message is named *)
(* by the constant that holds its text, with the values formatted into it. *)
(***************************************************************************)
Msg(kind, code, detail) == [kind |-> kind, status |-> code, detail |-> detail]
NoMsg == Msg("", 0, "")

\* Request parameters: the keys present and their values.
Params0 == [keys |-> {}, q |-> "", id |-> "", intervalSize |-> 0]
ParamsQ(v) == [Params0 EXCEPT !.keys = {"q"}, !.q = v]
ParamsId(v) == [Params0 EXCEPT !.keys = {"id"}, !.id = v]
ParamsInterval(n) == [Params0 EXCEPT !.keys = {"intervalSize"}, !.intervalSize = n]


\* Lines 205-218: the body is parsed as JSON when the content-type header is
\* non-empty and contains "json", and is kept as text otherwise.
JsonTyped(resp) ==
    /\ resp.ctype.present
    /\ resp.ctype.text # <<>>
    /\ Find(resp.ctype.text, Str_json) # -1

ParseResponse(resp) ==
    IF JsonTyped(resp)
    THEN IF JsonRaises(resp) THEN [raised |-> TRUE, data |-> NoResponseData]
                             ELSE [raised |-> FALSE, data |-> ParsedJson(resp)]
    ELSE [raised |-> FALSE, data |-> Text(resp)]

\* The keyword arguments of _make_rest_call with their defaults; timeout 0
\* stands for None, auth is whether client credentials are passed.
NoData == [kind |-> "None"]
RestDefaults == [headers |-> NONE, params |-> Params0, data |-> NoData, method |-> "get",
                 timeout |-> 0, auth |-> FALSE]

\* The request a call sends: with auth (client credentials) for the token
\* endpoint, with "Authorization: Bearer <self._access_token>" otherwise.
Request(token, endpoint, opts) ==
    [endpoint |-> endpoint, method |-> opts.method, data |-> opts.data,
     timeout |-> opts.timeout,
     params |-> IF opts.auth THEN Params0 ELSE opts.params,
     headers |-> IF opts.auth THEN NONE ELSE opts.headers,
     auth |-> IF opts.auth THEN "basic" ELSE "bearer",
     bearer |-> IF opts.auth THEN NONE ELSE token]

\* Line 234: the payload shapes a 200 response is accepted with.
AcceptedShape_DictOnly(response_data) == IsDict(response_data)
AcceptedShape(response_data) == IsDict(response_data) \/ IsList(response_data)

\* _make_rest_call: [ok, msg, data, sent, req, exc]; ok is phantom.APP_SUCCESS,
\* msg the status set on the action result (NoMsg on success), data the second
\* element of the returned pair, sent whether request_func made a request, exc
\* the exception that leaves the function (NONE when it returns).
MakeRestCall(token, endpoint, opts, resp) ==
    LET Fail(req, m, d, sent) ==
            [ok |-> FALSE, msg |-> m, data |-> d, sent |-> sent, req |-> req, exc |-> NONE]
        \* str.format raises at line 215, 227, 241 or 250: no status is set.
        Throw(req) ==
            [ok |-> FALSE, msg |-> NoMsg, data |-> NoResponseData, sent |-> TRUE, req |-> req,
             exc |-> "UnicodeEncodeError"]
        \* Lines 224-230 and 244-255: the detail is the message of a dict body.
        FromServer(req, data, code, default) ==
            IF IsDict(data) /\ "message" \in data.body.keys /\ ~data.body.json_formats
            THEN Throw(req)
            ELSE Fail(req, Msg("TRUSTAR_ERR_FROM_SERVER", code,
                               IF IsDict(data) THEN DictGetMessage(data, default) ELSE default),
                      data, TRUE)
        \* Lines 238-241: the payload itself is formatted into the message.
        Unexpected(req, data) ==
            IF \/ data.kind = "text" /\ ~data.body.text_formats
               \/ data.kind # "text" /\ ~data.body.json_formats
            THEN Throw(req)
            ELSE Fail(req, Msg("TRUSTAR_UNEXPECTED_RESPONSE", 0, ""), data, TRUE)
        \* Lines 205-255: a response was received.
        Received(req, parsed) ==
            LET data == parsed.data
                code == resp.status_code
            IN  IF parsed.raised
                THEN IF ~resp.body.text_formats
                     THEN Throw(req)
                     ELSE Fail(req, Msg("TRUSTAR_ERR_JSON_PARSE", 0, ""), NoResponseData, TRUE)
                ELSE IF code \in DOMAIN ERROR_RESPONSE_DICT
                THEN FromServer(req, data, code, ERROR_RESPONSE_DICT[code])
                ELSE IF code = TRUSTAR_REST_RESP_SUCCESS
                THEN IF AcceptedShape(data)
                     THEN [ok |-> TRUE, msg |-> NoMsg, data |-> data, sent |-> TRUE, req |-> req,
                           exc |-> NONE]
                     ELSE Unexpected(req, data)
                ELSE FromServer(req, data, code, "TRUSTAR_REST_RESP_OTHER_ERROR_MSG")
        \* Lines 164-194: the method is looked up and the request is made.
        Send(req) ==
            IF resp.getattr = "AttributeError"
            THEN Fail(req, Msg("TRUSTAR_ERR_API_UNSUPPORTED_METHOD", 0, opts.method),
                      NoResponseData, FALSE)
            ELSE IF resp.getattr # "found"
            THEN Fail(req, Msg("TRUSTAR_EXCEPTION_OCCURRED", 0, ""), NoResponseData, FALSE)
            ELSE IF resp.exc
            THEN Fail(req, Msg("TRUSTAR_ERR_SERVER_CONNECTION", 0, ""), NoResponseData,
                      resp.sent)
            ELSE Received(req, ParseResponse(resp))
    IN  Send(Request(token, endpoint, opts))

(***************************************************************************)
(* State.                                                                  *)
(***************************************************************************)
VARIABLES
    pc,            \* host lifecycle: "idle", "initialized", "handled"; "rest" in SpecRest
    saved_state,   \* the state blob the host persists (load_state / save_state)
    app_state,     \* self._app_state
    access_token,  \* self._access_token
    action,        \* the action identifier and param of the invocation
    calls,         \* the requests of the invocation, in order: [resp, out]
    ar,            \* the ActionResult of the invocation
    raised,        \* the exception that left the handler, NONE if none did
    container,     \* the save_container calls of the invocation
    artifacts,     \* the save_artifact calls of the invocation, in order
    conn,          \* the connector's own status (set_status) and the handler's return value
    hist,          \* history of the scheduled polls seen so far
    validated      \* the input and the verdict of the validator _is_ip

vars == <<pc, saved_state, app_state, access_token, action, calls, ar, raised,
          container, artifacts, conn, hist, validated>>

\* A dict with string keys: a function from the keys present.
EmptyDict == [k \in {} |-> FALSE]
DictGet(d, k, default) == IF k \in DOMAIN d THEN d[k] ELSE default
DictSet(d, k, v) == [x \in DOMAIN d \cup {k} |-> IF x = k THEN v ELSE d[x]]

\* ActionResult(dict(param)) followed by update_summary({}).
Summary0 == [keys |-> {}, total_correlated_reports |-> 0, possible_reason |-> "",
             extracted_indicators_count |-> 0, report_id |-> "",
             total_extracted_indicators |-> 0]
NewActionResult == [added |-> FALSE, status |-> "unset", msg |-> NoMsg, data |-> <<>>,
                    summary |-> Summary0]
NoConn == [status |-> "unset", ret |-> NONE]
SetStatusError(a, m) == [a EXCEPT !.status = "failed", !.msg = m]
SetStatusSuccess(a) == [a EXCEPT !.status = "success", !.msg = NoMsg]

\* A str the code splits or searches: present = FALSE is None.
NoText == [present |-> FALSE, text |-> <<>>]
\* A timestamp input: its Python type, whether dateutil parses it, and the
\* wall-clock hour and UTC offset (hours) it denotes; tz "naive" has no offset.
NoTime == [type |-> "None", parse |-> "ok", wall |-> 0, tz |-> "naive", off |-> 0]

\* The param dictionary of an invocation (the keys an action does not read
\* keep their defaults) and what the invocation reads from its environment:
\* the clock, the local timezone, and the host's answers.
Param0 == [ioc |-> "", report_id |-> "", distribution_type |-> "", enclave_ids |-> NoText,
           time_discovered |-> NoTime, tracking_id |-> NONE, api_version |-> NONE,
           start_time |-> 0, end_time |-> 0]
Env0 == [now |-> 0, local_off |-> 0, poll_now |-> FALSE, container_ok |-> TRUE,
         container_id |-> 7, order |-> <<>>, failing |-> {}]
NoAction == [name |-> NONE, param |-> Param0, env |-> Env0]
\* History of the scheduled (not poll-now) on_poll invocations: seen is whether
\* one has run, fetched whether one has passed token generation; the _before
\* fields hold the values from before the current invocation.
NoHist == [seen |-> FALSE, fetched |-> FALSE, seen_before |-> FALSE, fetched_before |-> FALSE]
\* No address was handed to the validator.
NoValidation == [input |-> NONE, result |-> NONE]

(***************************************************************************)
(* The REST helper on its own: every response of the bounded response set  *)
(* is handed to _make_rest_call.                                           *)
(***************************************************************************)
StatusCodes == { 200, 201, 204, 299, 302, 400, 401, 403, 404, 413, 500, 503, 504 }
RestBodies == { BodyHtml, BodyScalar, BodyEmptyDict, BodyMessage, BodyEmptyList, BodyList2,
                BodyToken("tokA"), BodyHtmlNonAscii, BodyMessageNonAscii }
AllResponses == { TransportFailure } \cup
                { Response(c, ct, b) : c \in StatusCodes, ct \in ContentTypes, b \in RestBodies }

Call(resp, out) == [resp |-> resp, out |-> out]

InitRest ==
    /\ pc = "rest"
    /\ saved_state = EmptyDict
    /\ app_state = EmptyDict
    /\ access_token \in {"tokA", "tokB"}
    /\ action = NoAction
    /\ calls = <<>>
    /\ ar = NewActionResult
    /\ raised = NONE
    /\ container = <<>>
    /\ artifacts = <<>>
    /\ conn = NoConn
    /\ hist = NoHist
    /\ validated = NoValidation

RestCall ==
    /\ pc = "rest"
    /\ calls = <<>>
    /\ \E resp \in AllResponses, auth \in BOOLEAN :
          LET out == IF auth
                     THEN MakeRestCall(access_token, TRUSTAR_GENERATE_TOKEN_ENDPOINT,
                                       [RestDefaults EXCEPT !.method = "post", !.auth = TRUE], resp)
                     ELSE MakeRestCall(access_token, TRUSTAR_HUNT_ACTIONS_ENDPOINT,
                                       [RestDefaults EXCEPT !.params = ParamsQ("8.8.8.8")], resp)
          IN  /\ calls' = <<Call(resp, out)>>
              /\ ar' = IF out.ok \/ out.exc # NONE THEN NewActionResult
                       ELSE SetStatusError(NewActionResult, out.msg)
              /\ raised' = out.exc
    /\ UNCHANGED <<pc, saved_state, app_state, access_token, action, container,
                   artifacts, conn, hist, validated>>

NextRest == RestCall

SpecRest == InitRest /\ [][NextRest]_vars

(***************************************************************************)
(* The connector.                                                          *)
(***************************************************************************)
\* The answers of the token endpoint.
TokenResponses ==
    { TransportFailure,
      Response(401, CtAppJson, BodyMessage),
      Response(401, CtAppJson, BodyMessageNonAscii),
      Response(200, CtHtml, BodyHtml),
      Response(200, CtAppJson, BodyHtml),
      Response(201, CtAppJson, BodyToken("tokA")),
      Response(200, CtAppJson, BodyEmptyDict),
      Response(200, CtAppJson, BodyEmptyList),
      Response(200, CtAppJson, BodyToken("")),
      Response(200, CtAppJson, BodyToken("tokA")),
      Response(200, CtJsonCharset, BodyToken("tokB")) }

\* Python truth value of self._access_token (None and "" are false).
Falsy(tok) == tok \in { NONE, "" }

\* Line 277: self._access_token = response.get("access_token").
NewAccessToken(token, response) ==
    IF "access_token" \in response.body.keys THEN response.body.access_token ELSE NONE

\* _generate_api_token: result is "success", "failed" (the status is set on the
\* action result) or "raised" (the helper raised, or response is a list, which
\* has no get).
GenerateApiToken(token, action_id, resp) ==
    LET Res(result, m, t, exc, out) ==
            [result |-> result, msg |-> m, token |-> t, exc |-> exc, call |-> Call(resp, out)]
        \* Lines 272-284: what is made of the helper's answer.
        Answered(out) ==
            LET tok == NewAccessToken(token, out.data)
            IN  IF out.exc # NONE THEN Res("raised", NoMsg, token, out.exc, out)
                ELSE IF ~out.ok THEN Res("failed", out.msg, token, NONE, out)
                ELSE IF ~IsDict(out.data) THEN Res("raised", NoMsg, token, "AttributeError", out)
                ELSE IF Falsy(tok)
                THEN Res("failed", Msg("TRUSTAR_TOKEN_GENERATION_ERR", 0, ""), tok, NONE, out)
                ELSE Res("success", NoMsg, tok, NONE, out)
    IN  Answered(MakeRestCall(token, TRUSTAR_GENERATE_TOKEN_ENDPOINT,
                              [RestDefaults EXCEPT
                                  !.method = "post",
                                  !.data = [kind |-> "form", grant_type |-> "client_credentials"],
                                  !.timeout = IF action_id = "test_asset_connectivity"
                                              THEN 30 ELSE 0,
                                  !.auth = TRUE], resp))

\* What a handler leaves behind: the token, the calls made, the action result,
\* the exception that left it and its return value.
Outcome(token, cs, a, exc, ret) ==
    [token |-> token, calls |-> cs, ar |-> a, raised |-> exc, ret |-> ret]
\* return action_result.get_status() after a failure was set on it.
Failed(token, cs, a, m) == Outcome(token, cs, SetStatusError(a, m), NONE, "failed")
Raised(token, cs, a, exc) == Outcome(token, cs, a, exc, NONE)
Succeeded(token, cs, a) == Outcome(token, cs, SetStatusSuccess(a), NONE, "success")

\* add_action_result(ActionResult(dict(param))).
AddedActionResult == [NewActionResult EXCEPT !.added = TRUE]

\* Lines 177-194: _make_rest_call calls request_func once, in no loop, whatever
\* comes of the request.
RequestsSent_RetryOnFailure(out) == IF out.ok THEN 1 ELSE 2
RequestsSent(out) == IF out.sent THEN 1 ELSE 0

\* The requests the calls of a handler put on the wire, in order.
RECURSIVE OnTheWire(_)
OnTheWire(cs) ==
    IF cs = <<>> THEN <<>>
    ELSE [i \in 1..RequestsSent(Head(cs).out) |-> Head(cs)] \o OnTheWire(Tail(cs))

\* The handler ends: its outcome becomes the state of the invocation.
Finish(name, param, env, o) ==
    /\ pc' = "handled"
    /\ action' = [name |-> name, param |-> param, env |-> env]
    /\ access_token' = o.token
    /\ calls' = OnTheWire(o.calls)
    /\ ar' = o.ar
    /\ raised' = o.raised

\* __init__ and initialize(): a fresh instance loads the persisted state.
Initialize ==
    /\ pc = "idle"
    /\ pc' = "initialized"
    /\ app_state' = saved_state
    /\ access_token' = NONE
    /\ action' = NoAction
    /\ calls' = <<>>
    /\ ar' = NewActionResult
    /\ raised' = NONE
    /\ container' = <<>>
    /\ artifacts' = <<>>
    /\ conn' = NoConn
    /\ hist' = [hist EXCEPT !.seen_before = hist.seen, !.fetched_before = hist.fetched]
    /\ UNCHANGED <<saved_state, validated>>

\* finalize(): the state is handed to the host to persist.
Finalize ==
    /\ pc = "handled"
    /\ pc' = "idle"
    /\ saved_state' = app_state
    /\ UNCHANGED <<app_state, access_token, action, calls, ar, raised, container, artifacts,
                   conn, hist, validated>>

\* _test_asset_connectivity: the action result is not added to the connector;
\* the verdict is set on the connector itself.
TestAssetConnectivity ==
    /\ pc = "initialized"
    /\ \E tresp \in TokenResponses :
          LET Verdict(t) ==
                  LET o == CASE t.result = "failed" ->
                                  Failed(t.token, <<t.call>>, NewActionResult, t.msg)
                             [] t.result = "raised" ->
                                  Raised(t.token, <<t.call>>, NewActionResult, t.exc)
                             [] OTHER ->
                                  Outcome(t.token, <<t.call>>, NewActionResult, NONE, "unset")
                  IN  /\ Finish("test_asset_connectivity", Param0, Env0, o)
                      /\ conn' = [status |-> CASE t.result = "failed" -> "failed"
                                               [] t.result = "raised" -> "unset"
                                               [] OTHER -> "success",
                                  ret |-> o.ret]
          IN  Verdict(GenerateApiToken(access_token, "test_asset_connectivity", tresp))
    /\ UNCHANGED <<saved_state, app_state, container, artifacts, hist, validated>>

(***************************************************************************)
(* The hunt actions.                                                       *)
(***************************************************************************)
HuntActions == { "hunt_ip", "hunt_url", "hunt_domain", "hunt_file", "hunt_email",
                 "hunt_cve_number", "hunt_malware", "hunt_registry_key" }
HuntValues == { "8.8.8.8", "evil.example", "http://evil.example/a" }
\* phantom.is_url and phantom.get_host_from_url on the values above.
IsUrl(v) == v = "http://evil.example/a"
GetHostFromUrl(v) == IF v = "http://evil.example/a" THEN "evil.example" ELSE v

\* The value a hunt action queries for: hunt_domain replaces a URL by its host.
IocToHunt_AsGiven(name, v) == v
IocToHunt(name, v) == IF name = "hunt_domain" /\ IsUrl(v) THEN GetHostFromUrl(v) ELSE v

HuntResponses ==
    { TransportFailure,
      Response(404, CtAppJson, BodyMessage),
      Response(404, CtAppJson, BodyMessageNonAscii),
      Response(500, CtHtml, BodyHtml),
      Response(200, CtHtml, BodyHtml),
      Response(200, CtAppJson, BodyEmptyList),
      Response(200, CtAppJson, BodyList2),
      Response(200, CtAppJson, BodyEmptyDict),
      Response(200, CtAppJson, BodyMessage) }

\* The elements a for loop over a response visits: the items of a list, the
\* keys of a dict (the bodies here have at most one key).
SeqOfKeys(keys) == IF keys = {} THEN <<>> ELSE <<CHOOSE k \in keys : TRUE>>
Elements_Reversed(response) ==
    [i \in 1..Len(response.body.items) |->
        response.body.items[Len(response.body.items) + 1 - i]]
Elements(response) ==
    IF IsList(response) THEN response.body.items ELSE SeqOfKeys(response.body.keys)

\* _hunt_correlated_reports: [ok, token, calls, msg, exc, response].
HuntCorrelatedReports(token, name, ioc_to_hunt, tresp, dresp) ==
    LET Answered(t, out) ==
            [ok |-> out.ok, token |-> t.token, calls |-> <<t.call, Call(dresp, out)>>,
             msg |-> out.msg, exc |-> out.exc, response |-> out.data]
        Query(t) ==
            IF t.result # "success"
            THEN [ok |-> FALSE, token |-> t.token, calls |-> <<t.call>>, msg |-> t.msg,
                  exc |-> t.exc, response |-> NoResponseData]
            ELSE Answered(t, MakeRestCall(t.token, TRUSTAR_HUNT_ACTIONS_ENDPOINT,
                                          [RestDefaults EXCEPT !.params = ParamsQ(ioc_to_hunt)],
                                          dresp))
    IN  Query(GenerateApiToken(token, name, tresp))

\* The eight _hunt_* handlers.
HuntOutcome(token, name, value, tresp, dresp) ==
    LET Listed(r, items) ==
            LET summary == [Summary0 EXCEPT
                               !.keys = IF Len(items) = 0
                                        THEN {"total_correlated_reports", "possible_reason"}
                                        ELSE {"total_correlated_reports"},
                               !.total_correlated_reports = Len(items),
                               !.possible_reason = IF Len(items) = 0
                                                   THEN "TRUSTAR_REASON_FOR_REPORT_UNAVAILABILITY"
                                                   ELSE ""]
            IN  Succeeded(r.token, r.calls,
                          [AddedActionResult EXCEPT
                              !.summary = summary,
                              !.data = [i \in 1..Len(items) |-> [report_id |-> items[i]]]])
        Hunted(r) ==
            IF r.exc # NONE THEN Raised(r.token, r.calls, AddedActionResult, r.exc)
            ELSE IF ~r.ok THEN Failed(r.token, r.calls, AddedActionResult, r.msg)
            ELSE Listed(r, Elements(r.response))
    IN  Hunted(HuntCorrelatedReports(token, name, IocToHunt(name, value), tresp, dresp))

Hunt ==
    /\ pc = "initialized"
    /\ \E name \in HuntActions, value \in HuntValues,
          tresp \in TokenResponses, dresp \in HuntResponses :
          LET Done(o) ==
                  /\ Finish(name, [Param0 EXCEPT !.ioc = value], Env0, o)
                  /\ conn' = [conn EXCEPT !.ret = o.ret]
          IN  Done(HuntOutcome(access_token, name, value, tresp, dresp))
    /\ UNCHANGED <<saved_state, app_state, container, artifacts, hist, validated>>

(***************************************************************************)
(* get_report.                                                             *)
(***************************************************************************)
ReportIds == { "rep-1" }
BodyReport == [Body0 EXCEPT !.json = "dict", !.keys = {"id", "indicators"},
                  !.report = << [indicatorType |-> "IP", value |-> "8.8.8.8"],
                                [indicatorType |-> "URL", value |-> "http://evil.example/a"],
                                [indicatorType |-> "value", value |-> "x"] >>]
BodyReportBare == [Body0 EXCEPT !.json = "dict", !.keys = {"id"}]
GetReportResponses ==
    { TransportFailure,
      Response(404, CtAppJson, BodyMessage),
      Response(200, CtHtml, BodyHtml),
      Response(200, CtHtml, BodyHtmlNonAscii),
      Response(200, CtAppJson, BodyEmptyList),
      Response(200, CtAppJson, BodyReportBare),
      Response(200, CtAppJson, BodyReport) }

\* Lines 609-612, in place: the value is stored under the key named by the
\* type, then the keys indicatorType and value are deleted (the key just
\* written too, when the type is one of these two names).
RewriteIndicator(indicator) ==
    LET written == DictSet(indicator, indicator.indicatorType, indicator.value)
    IN  [k \in DOMAIN written \ {"indicatorType", "value"} |-> written[k]]

\* _get_report.
GetReportOutcome(token, report_id, tresp, dresp) ==
    LET Rewritten(t, cs, response, indicators) ==
            LET rewritten == [i \in 1..Len(indicators) |-> RewriteIndicator(indicators[i])]
            IN  Succeeded(t.token, cs,
                          [AddedActionResult EXCEPT
                              !.data = << [keys |-> response.body.keys,
                                           indicators |-> rewritten] >>,
                              !.summary = [Summary0 EXCEPT
                                              !.keys = {"extracted_indicators_count"},
                                              !.extracted_indicators_count = Len(rewritten)]])
        Answered(t, out, cs) ==
            IF out.exc # NONE THEN Raised(t.token, cs, AddedActionResult, out.exc)
            ELSE IF ~out.ok THEN Failed(t.token, cs, AddedActionResult, out.msg)
            ELSE IF ~IsDict(out.data) THEN Raised(t.token, cs, AddedActionResult, "AttributeError")
            ELSE Rewritten(t, cs, out.data,
                           IF "indicators" \in out.data.body.keys THEN out.data.body.report
                                                                  ELSE <<>>)
        Called(t, out) == Answered(t, out, <<t.call, Call(dresp, out)>>)
        Query(t) ==
            IF t.result = "raised" THEN Raised(t.token, <<t.call>>, AddedActionResult, t.exc)
            ELSE IF t.result = "failed" THEN Failed(t.token, <<t.call>>, AddedActionResult, t.msg)
            ELSE Called(t, MakeRestCall(t.token, TRUSTAR_GET_REPORT_ENDPOINT,
                                        [RestDefaults EXCEPT !.params = ParamsId(report_id),
                                                             !.method = "get"], dresp))
    IN  Query(GenerateApiToken(token, "get_report", tresp))

GetReport ==
    /\ pc = "initialized"
    /\ \E report_id \in ReportIds, tresp \in TokenResponses, dresp \in GetReportResponses :
          LET Done(o) ==
                  /\ Finish("get_report", [Param0 EXCEPT !.report_id = report_id], Env0, o)
                  /\ conn' = [conn EXCEPT !.ret = o.ret]
          IN  Done(GetReportOutcome(access_token, report_id, tresp, dresp))
    /\ UNCHANGED <<saved_state, app_state, container, artifacts, hist, validated>>

(***************************************************************************)
(* submit_report.                                                          *)
(***************************************************************************)
\* The clock (datetime.now(), a local wall-clock hour) and the UTC offsets
\* get_localzone() may have.
ClockHours == { 100 }
LocalOffsets == { -5, 0, 2 }

TimeStr(wall, tz, off) == [type |-> "str", parse |-> "ok", wall |-> wall, tz |-> tz, off |-> off]
TimeInputs ==
    { NoTime,
      [NoTime EXCEPT !.type = "str", !.parse = "error"],
      [NoTime EXCEPT !.type = "unicode", !.parse = "error"],
      [NoTime EXCEPT !.type = "unicode", !.wall = 10],
      TimeStr(10, "naive", 0),
      TimeStr(10, "aware", 0),
      TimeStr(10, "aware", 2),
      [NoTime EXCEPT !.type = "datetime", !.wall = 20],
      [NoTime EXCEPT !.type = "datetime", !.wall = 20, !.tz = "aware", !.off = -5] }

\* A datetime: wall-clock hour, and the UTC offset when it is timezone-aware.
DateTime(wall, tz, off) == [wall |-> wall, tz |-> tz, off |-> off]

\* Lines 629-639: the datetime taken from the input; a str goes through
\* dateutil.parser.parse, a datetime is taken as it is, anything else leaves
\* datetime.now().
InputDateTime(date_time, now) ==
    IF date_time.type \in {"str", "datetime"}
    THEN DateTime(date_time.wall, date_time.tz, date_time.off)
    ELSE DateTime(now, "naive", 0)

\* Line 633 raises: dateutil cannot parse the str.
ParseRaises(date_time) == date_time.type = "str" /\ date_time.parse = "error"

\* Lines 641-647: a naive datetime is localized and converted to UTC; an aware
\* one is left as it is.
ToUtcIfNaive(dt, local_off) ==
    IF dt.tz = "naive" THEN DateTime(dt.wall - local_off, "aware", 0) ELSE dt

\* _normalize_timestamp: [ok, wall, off]; ok = FALSE is None, otherwise the
\* ISO 8601 text of the wall-clock hour with its offset.
NormalizeTimestamp(date_time, now, local_off) ==
    IF ParseRaises(date_time)
    THEN [ok |-> FALSE, wall |-> 0, off |-> 0]
    ELSE LET dt == ToUtcIfNaive(InputDateTime(date_time, now), local_off)
         IN  [ok |-> TRUE, wall |-> dt.wall, off |-> dt.off]

\* str.split(","): the pieces between the commas.
RECURSIVE SplitComma(_)
SplitComma(text) ==
    LET commas == { i \in 1..Len(text) : text[i] = "," }
    IN  IF commas = {} THEN <<text>>
        ELSE LET i == CHOOSE c \in commas : \A d \in commas : c <= d
             IN  <<SubSeq(text, 1, i - 1)>> \o SplitComma(SubSeq(text, i + 1, Len(text)))

\* Python truth value of enclave_ids (None and "" are false).
HasEnclaveIds(enclave_ids) == enclave_ids.present /\ enclave_ids.text # <<>>

EnclaveInputs ==
    { NoText,
      [present |-> TRUE, text |-> <<>>],
      [present |-> TRUE, text |-> <<"e","1">>],
      [present |-> TRUE, text |-> <<"e","1",",","e","2">>] }

\* A token answer that carries a token.
TokenGranted == Response(200, CtAppJson, BodyToken("tokA"))

SubmitParam(d, e, t, tracking_id, api_version) ==
    [Param0 EXCEPT !.distribution_type = d, !.enclave_ids = e, !.time_discovered = t,
                   !.tracking_id = tracking_id, !.api_version = api_version]
DefaultSubmitParam ==
    SubmitParam("ENCLAVE", [present |-> TRUE, text |-> <<"e","1",",","e","2">>],
                TimeStr(10, "aware", 0), NONE, NONE)

BodySubmitted == [Body0 EXCEPT !.json = "dict", !.keys = {"reportId", "reportIndicators"},
                     !.reportId = "rep-1",
                     !.indicators = [t \in {"IP", "URL"} |->
                                        IF t = "IP" THEN <<"8.8.8.8", "1.1.1.1">>
                                                    ELSE <<"http://evil.example/a">>]]
BodySubmittedBare == [Body0 EXCEPT !.json = "dict", !.keys = {"reportId"}, !.reportId = "rep-1"]
SubmitResponses ==
    { TransportFailure,
      Response(400, CtAppJson, BodyMessage),
      Response(400, CtAppJson, BodyMessageNonAscii),
      Response(413, CtHtml, BodyHtml),
      Response(200, CtAppJson, BodyEmptyList),
      Response(200, CtAppJson, BodyEmptyDict),
      Response(200, CtAppJson, BodySubmittedBare),
      Response(200, CtAppJson, BodySubmitted) }

\* The inputs of submit_report, as <<param, local offset, token answer, answer>>:
\* every combination of distribution type, enclave ids and timestamp; every
\* combination of timestamp, tracking id, API version and local timezone; and
\* every token answer.
SubmitInputs ==
    { <<SubmitParam(d, e, t, NONE, NONE), -5, TokenGranted, dresp>> :
        d \in {"ENCLAVE", "COMMUNITY"}, e \in EnclaveInputs, t \in TimeInputs,
        dresp \in SubmitResponses } \cup
    { <<SubmitParam("COMMUNITY", NoText, t, x[1], x[2]), local_off, TokenGranted,
        Response(200, CtAppJson, BodySubmitted)>> :
        t \in TimeInputs, local_off \in LocalOffsets,
        x \in { <<NONE, NONE>>, <<"trk-1", "1.2">>, <<"trk-1", "1.1">>, <<"", "1.2">> } } \cup
    { <<DefaultSubmitParam, -5, tresp, dresp>> :
        tresp \in TokenResponses, dresp \in SubmitResponses }

\* The number of values over all the keys of a mapping of lists.
RECURSIVE SumLens(_)
SumLens(m) ==
    IF DOMAIN m = {} THEN 0
    ELSE LET k == CHOOSE x \in DOMAIN m : TRUE
         IN  Len(m[k]) + SumLens([x \in DOMAIN m \ {k} |-> m[x]])

\* Lines 684-706: the request body and the endpoint.
SubmitPayload(param, report_time_began) ==
    [incidentReport |->
        [keys |-> {"title", "reportBody", "distributionType", "timeDiscovered"} \cup
                  (IF param.api_version = "1.2" /\ param.tracking_id \notin {NONE, ""}
                   THEN {"externalTrackingId"} ELSE {}),
         distributionType |-> param.distribution_type,
         timeDiscovered |-> report_time_began,
         externalTrackingId |-> param.tracking_id],
     enclaveIds |-> IF HasEnclaveIds(param.enclave_ids)
                    THEN SplitComma(param.enclave_ids.text) ELSE <<>>,
     keys |-> {"incidentReport"} \cup
              (IF HasEnclaveIds(param.enclave_ids) THEN {"enclaveIds"} ELSE {})]
SubmitEndpoint(param) ==
    IF param.api_version = "1.2" THEN TRUSTAR_SUBMIT_REPORT_ENDPOINT_1_2
                                 ELSE TRUSTAR_SUBMIT_REPORT_ENDPOINT

\* Line 681: enclave ids are mandatory for the distribution type ENCLAVE.
MissingEnclaveId(param) ==
    param.distribution_type = "ENCLAVE" /\ ~HasEnclaveIds(param.enclave_ids)

\* _submit_report.
SubmitReportOutcome(token, param, env, tresp, dresp) ==
    LET Summarized(t, cs, response, with_data, count) ==
            Succeeded(t.token, cs,
                      [with_data EXCEPT
                          !.summary = [Summary0 EXCEPT
                                          !.keys = {"report_id", "total_extracted_indicators"},
                                          !.report_id = response.body.reportId,
                                          !.total_extracted_indicators = count]])
        Added(t, cs, response, with_data) ==
            IF ~IsDict(response) THEN Raised(t.token, cs, with_data, "AttributeError")
            ELSE IF "reportId" \notin response.body.keys
            THEN Raised(t.token, cs, with_data, "KeyError")
            ELSE Summarized(t, cs, response, with_data,
                            IF "reportIndicators" \in response.body.keys
                            THEN SumLens(response.body.indicators) ELSE 0)
        Answered(t, out, cs) ==
            IF out.exc # NONE THEN Raised(t.token, cs, AddedActionResult, out.exc)
            ELSE IF ~out.ok THEN Failed(t.token, cs, AddedActionResult, out.msg)
            ELSE Added(t, cs, out.data,
                       [AddedActionResult EXCEPT
                           !.data = << [keys |-> out.data.body.keys, kind |-> out.data.kind] >>])
        Called(t, out) == Answered(t, out, <<t.call, Call(dresp, out)>>)
        Submit(t, report_time_began) ==
            IF t.result = "raised" THEN Raised(t.token, <<t.call>>, AddedActionResult, t.exc)
            ELSE IF t.result = "failed" THEN Failed(t.token, <<t.call>>, AddedActionResult, t.msg)
            ELSE Called(t, MakeRestCall(t.token, SubmitEndpoint(param),
                                        [RestDefaults EXCEPT
                                            !.data = [kind |-> "json",
                                                      payload |-> SubmitPayload(param,
                                                                                report_time_began)],
                                            !.method = "post",
                                            !.headers = "Content-Type: application/json"],
                                        dresp))
        Validated(report_time_began) ==
            IF ~report_time_began.ok
            THEN Failed(token, <<>>, AddedActionResult, Msg("TRUSTAR_ERR_TIME_FORMAT", 0, ""))
            ELSE IF MissingEnclaveId(param)
            THEN Failed(token, <<>>, AddedActionResult,
                        Msg("TRUSTAR_ERR_MISSING_ENCLAVE_ID", 0, ""))
            ELSE Submit(GenerateApiToken(token, "submit_report", tresp), report_time_began)
    IN  Validated(NormalizeTimestamp(param.time_discovered, env.now, env.local_off))

SubmitReport ==
    /\ pc = "initialized"
    /\ \E in \in SubmitInputs, now \in ClockHours :
          LET Done(param, env, o) ==
                  /\ Finish("submit_report", param, env, o)
                  /\ conn' = [conn EXCEPT !.ret = o.ret]
              Handle(param, env) ==
                  Done(param, env, SubmitReportOutcome(access_token, param, env, in[3], in[4]))
          IN  Handle(in[1], [Env0 EXCEPT !.now = now, !.local_off = in[2]])
    /\ UNCHANGED <<saved_state, app_state, container, artifacts, hist, validated>>

(***************************************************************************)
(* on_poll and the ingestion.                                              *)
(***************************************************************************)
\* cef_mapping (lines 816-847).
CefEntry(artifact_name, cef_name, cef_contains) ==
    [artifact_name |-> artifact_name, cef_name |-> cef_name, cef_contains |-> cef_contains]
CefTypes == { "SHA256", "SHA1", "MD5", "SOFTWARE", "EMAIL_ADDRESS", "IP", "CIDR_BLOCK",
              "DOMAIN", "URL", "MALWARE", "CVE", "REGISTRY_KEY" }
cef_mapping ==
    [t \in CefTypes |->
        CASE t = "SHA256" -> CefEntry("File Artifact", "fileHashSha256", <<"sha256">>)
          [] t = "SHA1" -> CefEntry("File Artifact", "fileHashSha1", <<"sha1">>)
          [] t = "MD5" -> CefEntry("File Artifact", "fileHashMd5", <<"md5">>)
          [] t = "SOFTWARE" -> CefEntry("File Artifact", "filePath", <<"file name", "file path">>)
          [] t = "EMAIL_ADDRESS" -> CefEntry("Email Artifact", "email", <<"email">>)
          [] t = "IP" -> CefEntry("IP Artifact", "destinationAddress", <<"ip">>)
          [] t = "CIDR_BLOCK" -> CefEntry("IP Artifact", "destinationAddress", <<"ip">>)
          [] t = "DOMAIN" -> CefEntry("Domain Artifact", "destinationDnsDomain", <<"domain">>)
          [] t = "URL" -> CefEntry("URL Artifact", "requestURL", <<"url">>)
          [] t = "MALWARE" -> CefEntry("Malware Artifact", "malware", <<"trustar malware">>)
          [] t = "CVE" -> CefEntry("CVE Artifact", "cs3", <<"trustar cve number">>)
          [] OTHER -> CefEntry("Registry Key Artifact", "registryKey", <<"trustar registry key">>)]

\* The indicator types of the ingestion payloads: two of the table and one the
\* table does not know.  The lists hold at most MaxValues values.
KnownPayloadTypes == { "IP", "SOFTWARE" }
UnknownPayloadType == "BITCOIN_ADDRESS"
IocValues == { "ioc-a", "ioc-b" }
ValueLists == UNION { [1..k -> IocValues] : k \in 0..MaxValues }
IndicatorMaps ==
    { [t \in D |-> IF t = UnknownPayloadType THEN <<"ioc-a">> ELSE f[t]] :
        D \in SUBSET (KnownPayloadTypes \cup {UnknownPayloadType}),
        f \in [KnownPayloadTypes -> ValueLists] }

\* The order in which "for ioc_key in cef_mapping" visits the table is that of
\* the interpreter's dict.  DefaultOrder is the order of Python 2.7 without
\* hash randomisation; with it (python -R) the order varies from run to run,
\* and CefOrders holds both relative orders of the two types the payloads carry.
DefaultOrder == << "DOMAIN", "SHA1", "URL", "IP", "MALWARE", "CVE", "EMAIL_ADDRESS", "MD5",
                   "REGISTRY_KEY", "SHA256", "CIDR_BLOCK", "SOFTWARE" >>
CefOrders ==
    { DefaultOrder,
      [i \in 1..Len(DefaultOrder) |->
          IF DefaultOrder[i] = "IP" THEN "SOFTWARE"
          ELSE IF DefaultOrder[i] = "SOFTWARE" THEN "IP" ELSE DefaultOrder[i]] }

BodyIndicators(m) ==
    [Body0 EXCEPT !.json = "dict", !.keys = {"source", "intervalSize", "queryDate", "indicators"},
                  !.source = "trustar", !.intervalSize = 24, !.queryDate = "2017-02-23",
                  !.indicators = m]
BodyNoIndicators ==
    [Body0 EXCEPT !.json = "dict", !.keys = {"source", "intervalSize", "queryDate"},
                  !.source = "trustar", !.intervalSize = 24, !.queryDate = "2017-02-23"]

\* The answers of the latest-indicators endpoint that carry no indicators, and all of them.
BasicPollResponses ==
    { TransportFailure,
      Response(500, CtAppJson, BodyMessage),
      Response(200, CtAppJson, BodyHtml),
      Response(200, CtAppJson, BodyHtmlNonAscii),
      Response(200, CtAppJson, BodyEmptyList),
      Response(200, CtAppJson, BodyNoIndicators) }
OnPollResponses ==
    BasicPollResponses \cup { Response(200, CtAppJson, BodyIndicators(m)) : m \in IndicatorMaps }

\* The polling windows of the host, in epoch milliseconds.
StartTimes == { 0, 1, 999, 1000 }
WindowLengths == { h * 3600000 + d : h \in 0..MaxHours, d \in { 0, 1, 999, 1000, 3599999 } }
DefaultWindow == <<0, 7200000>>
Windows == { <<st, st + len>> : st \in StartTimes, len \in WindowLengths }

\* math.ceil(a / float(b)) for integers a and b > 0.
CeilDiv(a, b) == -((-a) \div b)

\* Lines 912-917: both times become whole seconds (Python 2 integer division),
\* and the difference is rounded up to whole hours.
IntervalHours_Exact(start_time, end_time) == CeilDiv(end_time - start_time, 3600000)
IntervalHours(start_time, end_time) ==
    CeilDiv((end_time \div 1000) - (start_time \div 1000), 3600)

\* json.dumps(artifact, sort_keys=True): the keys present, in sorted order,
\* each with its value; run_automation is a key of the flagged artifact only.
JsonDumps(input_dict) ==
    << <<"cef", input_dict.cef>>, <<"cef_types", input_dict.cef_types>>,
       <<"container_id", input_dict.container_id>>, <<"description", input_dict.description>>,
       <<"name", input_dict.name>> >>
    \o (IF input_dict.run_automation THEN << <<"run_automation", TRUE>> >> ELSE <<>>)

\* _create_dict_hash: the MD5 of the dictionary's JSON text with sorted keys,
\* kept as the text it digests.
CreateDictHash_BeforeFlag(input_dict) ==
    [md5_of |-> JsonDumps([input_dict EXCEPT !.run_automation = FALSE])]
CreateDictHash(input_dict) == [md5_of |-> JsonDumps(input_dict)]

\* Line 774: the artifact that completes the expected count runs the automation.
IsLastArtifact(artifact_created, artifact_count) == artifact_created = artifact_count

\* _create_artifact: the dictionary handed to save_artifact.  ioc_key and
\* position name the indicator value the artifact is made for.
CreateArtifact(artifact_name, cef, cef_types, container_id, artifact_created, artifact_count, ioc_key, position, saved) ==
    LET artifact == [name |-> artifact_name, description |-> "TruSTAR artifacts",
                     cef_types |-> cef_types, cef |-> cef, container_id |-> container_id,
                     run_automation |-> IsLastArtifact(artifact_created, artifact_count)]
    IN  [artifact |-> artifact,
         source_data_identifier |-> CreateDictHash(artifact),
         created |-> artifact_created,
         ioc_key |-> ioc_key, position |-> position, ok |-> saved]

\* Lines 863-870: the artifacts of one indicator type, in the order of its values.
PositionOf_Reversed(ioc_values, i) == Len(ioc_values) + 1 - i
PositionOf(ioc_values, i) == i
ArtifactsOfType(ioc_key, ioc_values, container_id, artifacts_created, artifact_count, failing) ==
    LET cef_details == cef_mapping[ioc_key]
    IN  [i \in 1..Len(ioc_values) |->
            CreateArtifact(cef_details.artifact_name,
                           [k \in {cef_details.cef_name} |-> ioc_values[PositionOf(ioc_values, i)]],
                           [k \in {cef_details.cef_name} |-> cef_details.cef_contains],
                           container_id, artifacts_created + i, artifact_count,
                           ioc_key, PositionOf(ioc_values, i),
                           (artifacts_created + i) \notin failing)]

\* Lines 850-870: the loop over cef_mapping, from position n of the order.
RECURSIVE IngestFrom(_, _, _, _, _, _, _)
IngestFrom(order, n, indicators, container_id, artifacts_created, artifact_count, failing) ==
    IF n > Len(order) THEN <<>>
    ELSE LET ioc_key == order[n]
             ioc_values == IF ioc_key \in DOMAIN indicators THEN indicators[ioc_key] ELSE <<>>
         IN  ArtifactsOfType(ioc_key, ioc_values, container_id, artifacts_created,
                             artifact_count, failing)
             \o IngestFrom(order, n + 1, indicators, container_id,
                           artifacts_created + Len(ioc_values), artifact_count, failing)

\* Lines 781-787 and 869: a failed save_artifact is logged, _create_artifact
\* returns APP_SUCCESS and the loop does not look at what it returns.
GoesOnAfter(saved) == TRUE

\* The save_artifact calls made: those up to the first one the loop stops at.
RECURSIVE Attempted(_)
Attempted(arts) ==
    IF arts = <<>> THEN <<>>
    ELSE IF GoesOnAfter(Head(arts).ok) THEN <<Head(arts)>> \o Attempted(Tail(arts))
    ELSE <<Head(arts)>>

\* Line 808: phantom.is_fail on what save_container returned.
ContainerCreationFailed_Never(env) == FALSE
ContainerCreationFailed(env) == ~env.container_ok

\* Lines 798-802: the container of the batch.
ContainerOf(iocs) ==
    LET name == <<iocs.source, "-", iocs.intervalSize, "-", iocs.queryDate>>
    IN  [name |-> name, description |-> iocs.source, source_data_identifier |-> name]

\* _ingest_data: the container and the artifacts saved; no artifact when
\* save_container fails.
IngestData(iocs, artifact_count, env) ==
    [container |-> << [container |-> ContainerOf(iocs), ok |-> env.container_ok] >>,
     artifacts |-> IF ContainerCreationFailed(env)
                   THEN <<>>
                   ELSE Attempted(IngestFrom(env.order, 1, iocs.indicators, env.container_id, 0,
                                             artifact_count, env.failing))]
NoIngestion == [container |-> <<>>, artifacts |-> <<>>]

\* Lines 929-934: the expected count is taken over every key of indicators.
TotalArtifacts(indicators) == SumLens(indicators)

\* Lines 897-922: which request the poll makes.
PollMode(state, env) ==
    IF env.poll_now THEN "poll_now"
    ELSE IF DictGet(state, "first_run", TRUE) THEN "first_run"
    ELSE "scheduled"
PollParams(mode, param) ==
    IF mode = "scheduled" THEN ParamsInterval(IntervalHours(param.start_time, param.end_time))
                          ELSE Params0
\* Line 906: the first scheduled poll clears first_run before its request.
StateAfterPoll_Unchanged(state, mode) == state
StateAfterPoll_AnyMode(state, mode) == DictSet(state, "first_run", FALSE)
StateAfterPoll(state, mode) ==
    IF mode = "first_run" THEN DictSet(state, "first_run", FALSE) ELSE state

\* _on_poll: the outcome, the state and what was ingested.
OnPollOutcome(token, state, param, env, tresp, dresp) ==
    LET Res(o, st, ing) == [o |-> o, state |-> st, ingested |-> ing]
        Answered(t, out, cs, after) ==
            IF out.exc # NONE
            THEN Res(Raised(t.token, cs, AddedActionResult, out.exc), after, NoIngestion)
            ELSE IF ~out.ok
            THEN Res(Failed(t.token, cs, AddedActionResult, out.msg), after, NoIngestion)
            ELSE IF ~IsDict(out.data)
            THEN Res(Raised(t.token, cs, AddedActionResult, "AttributeError"), after,
                     NoIngestion)
            ELSE Res(Succeeded(t.token, cs, AddedActionResult), after,
                     IF /\ "indicators" \in out.data.body.keys
                        /\ DOMAIN out.data.body.indicators # {}
                     THEN IngestData(out.data.body, TotalArtifacts(out.data.body.indicators),
                                     env)
                     ELSE NoIngestion)
        Called(t, out, mode) ==
            Answered(t, out, <<t.call, Call(dresp, out)>>, StateAfterPoll(state, mode))
        Fetch(t, mode) ==
            Called(t, MakeRestCall(t.token, TRUSTAR_LATEST_IOC_ENDPOINT,
                                   [RestDefaults EXCEPT !.params = PollParams(mode, param)],
                                   dresp), mode)
        Poll(t) ==
            IF t.result = "raised"
            THEN Res(Raised(t.token, <<t.call>>, AddedActionResult, t.exc), state, NoIngestion)
            ELSE IF t.result = "failed"
            THEN Res(Failed(t.token, <<t.call>>, AddedActionResult, t.msg), state, NoIngestion)
            ELSE Fetch(t, PollMode(state, env))
    IN  Poll(GenerateApiToken(token, "on_poll", tresp))

\* The save_artifact calls the host fails, by their number in the ingestion.
FailingSets == SUBSET (1..MaxFailing)
\* The payloads that hold both types of the table.
FullPayloads == { m \in IndicatorMaps : KnownPayloadTypes \subseteq DOMAIN m }

\* The inputs of a poll, as <<window, poll now, container saved, order, token
\* answer, answer, failing artifacts>>: every token answer; every window; every
\* payload with either answer of save_container and either order of the table;
\* and every set of failing artifacts, in either order of the table.
PollInputs ==
    { <<DefaultWindow, p, TRUE, DefaultOrder, tresp, r, {}>> :
        p \in BOOLEAN, tresp \in TokenResponses, r \in BasicPollResponses } \cup
    { <<w, p, TRUE, DefaultOrder, TokenGranted, r, {}>> :
        w \in Windows, p \in BOOLEAN, r \in BasicPollResponses } \cup
    { <<DefaultWindow, p, c, order, TokenGranted, r, {}>> :
        p \in BOOLEAN, c \in BOOLEAN, order \in CefOrders, r \in OnPollResponses } \cup
    { <<DefaultWindow, TRUE, c, order, TokenGranted,
        Response(200, CtAppJson, BodyIndicators(m)), f>> :
        c \in BOOLEAN, order \in CefOrders, m \in FullPayloads, f \in FailingSets }

OnPoll ==
    /\ pc = "initialized"
    /\ \E in \in PollInputs :
          LET Done(param, env, r) ==
                  /\ Finish("on_poll", param, env, r.o)
                  /\ conn' = [conn EXCEPT !.ret = r.o.ret]
                  /\ app_state' = r.state
                  /\ container' = r.ingested.container
                  /\ artifacts' = r.ingested.artifacts
                  /\ hist' = [hist EXCEPT
                                 !.seen = hist.seen \/ ~env.poll_now,
                                 !.fetched = hist.fetched \/
                                             (~env.poll_now /\ Len(r.o.calls) > 1)]
              Handle(param, env) ==
                  Done(param, env,
                       OnPollOutcome(access_token, app_state, param, env, in[5], in[6]))
          IN  Handle([Param0 EXCEPT !.start_time = in[1][1], !.end_time = in[1][2]],
                     [Env0 EXCEPT !.poll_now = in[2], !.container_ok = in[3], !.order = in[4],
                                  !.failing = in[7]])
    /\ UNCHANGED <<saved_state, validated>>

Init ==
    /\ pc = "idle"
    /\ saved_state = EmptyDict
    /\ app_state = EmptyDict
    /\ access_token = NONE
    /\ action = NoAction
    /\ calls = <<>>
    /\ ar = NewActionResult
    /\ raised = NONE
    /\ container = <<>>
    /\ artifacts = <<>>
    /\ conn = NoConn
    /\ hist = NoHist
    /\ validated = NoValidation

Next ==
    \/ Initialize
    \/ TestAssetConnectivity
    \/ Hunt
    \/ GetReport
    \/ SubmitReport
    \/ OnPoll
    \/ Finalize

Spec == Init /\ [][Next]_vars

(***************************************************************************)
(* The validator of IP parameters.                                         *)
(***************************************************************************)
\* An address text: whether phantom.is_ip accepts it (a dotted IPv4 address),
\* whether socket.inet_pton(AF_INET6, .) accepts it, whether ":" and "." are
\* in it, and whether it holds a NUL character (which inet_pton refuses with
\* an error that is no socket.error).
Address(text, v4, v6, colon, dot, nul) ==
    [text |-> text, v4 |-> v4, v6 |-> v6, colon |-> colon, dot |-> dot, nul |-> nul]
Addresses ==
    { Address("10.0.0.1", TRUE, FALSE, FALSE, TRUE, FALSE),
      Address("2001:db8::1", FALSE, TRUE, TRUE, FALSE, FALSE),
      Address("::ffff:10.0.0.1", FALSE, TRUE, TRUE, TRUE, FALSE),
      Address("999.0.0.1", FALSE, FALSE, FALSE, TRUE, FALSE),
      Address("gggg::1", FALSE, FALSE, TRUE, FALSE, FALSE),
      Address("", FALSE, FALSE, FALSE, FALSE, FALSE),
      Address("10.0.0.1<NUL>", FALSE, FALSE, FALSE, TRUE, TRUE) }

\* A prefix text: whether int() parses it, and the integer it gives.
PrefixText(is_int, n) == [is_int |-> is_int, value |-> n]
Prefixes == { PrefixText(TRUE, n) : n \in -1..MaxPrefix } \cup { PrefixText(FALSE, 0) }

\* The text handed to the validator, by the pieces "/" splits it into: the
\* address alone, address/prefix, or more pieces.
IpInputs ==
    { [pieces |-> 1, address |-> a, prefix |-> PrefixText(FALSE, 0)] : a \in Addresses } \cup
    { [pieces |-> 2, address |-> a, prefix |-> x] : a \in Addresses, x \in Prefixes } \cup
    { [pieces |-> 3, address |-> a, prefix |-> PrefixText(TRUE, 24)] : a \in Addresses }

\* _break_ip_address: unpacking more than two pieces raises, and so does
\* int() on a prefix that is no integer; without "/" the prefix is 0.
BreakIpAddress(cidr_ip_address) ==
    IF cidr_ip_address.pieces = 1
    THEN [raised |-> FALSE, ip_address |-> cidr_ip_address.address, prefix_size |-> 0]
    ELSE IF cidr_ip_address.pieces > 2 \/ ~cidr_ip_address.prefix.is_int
    THEN [raised |-> TRUE, ip_address |-> cidr_ip_address.address, prefix_size |-> 0]
    ELSE [raised |-> FALSE, ip_address |-> cidr_ip_address.address,
          prefix_size |-> cidr_ip_address.prefix.value]

\* phantom.is_ip and _is_ipv6 ("raised": the error inet_pton gives is not the
\* socket.error the function catches).
PhantomIsIp(ip_address) == ip_address.v4
IsIpv6(ip_address) == IF ip_address.nul THEN "raised" ELSE IF ip_address.v6 THEN "true" ELSE "false"

\* Lines 138-139: the net mask is out of the range of the address.
MaskOutOfRange(ip_address, net_mask) ==
    \/ ip_address.colon /\ net_mask \notin 0..128
    \/ ip_address.dot /\ net_mask \notin 0..32

\* _is_ip: "true", "false", or "raised" when an exception leaves it.
IsIp(cidr_ip_address) ==
    LET Checked(ip_address, net_mask, v6) ==
            IF ~PhantomIsIp(ip_address) /\ v6 = "raised" THEN "raised"
            ELSE IF ~(PhantomIsIp(ip_address) \/ v6 = "true") THEN "false"
            ELSE IF MaskOutOfRange(ip_address, net_mask) THEN "false"
            ELSE "true"
        Broken(b) ==
            IF b.raised THEN "false"
            ELSE Checked(b.ip_address, b.prefix_size, IsIpv6(b.ip_address))
    IN  Broken(BreakIpAddress(cidr_ip_address))

InitIp ==
    /\ pc = "validate"
    /\ saved_state = EmptyDict
    /\ app_state = EmptyDict
    /\ access_token = NONE
    /\ action = NoAction
    /\ calls = <<>>
    /\ ar = NewActionResult
    /\ raised = NONE
    /\ container = <<>>
    /\ artifacts = <<>>
    /\ conn = NoConn
    /\ hist = NoHist
    /\ validated \in { [input |-> in, result |-> NONE] : in \in IpInputs }

\* The host hands the parameter to the validator.
ValidateIp ==
    /\ pc = "validate"
    /\ validated.result = NONE
    /\ validated' = [validated EXCEPT !.result = IsIp(validated.input)]
    /\ UNCHANGED <<pc, saved_state, app_state, access_token, action, calls, ar, raised,
                   container, artifacts, conn, hist>>

NextIp == ValidateIp

SpecIp == InitIp /\ [][NextIp]_vars

(***************************************************************************)
(* Properties.                                                             *)
(***************************************************************************)
\* The responses the REST claims speak of, stated on the response itself.
HeaderSaysJson(resp) == resp.ctype \in { CtAppJson, CtJsonCharset }
BodyIsJsonDocument(resp) == resp.body.json # "invalid"
\* The body as the helper sees it: a JSON value when JSON-typed, text otherwise.
BodyIsObject(resp) == HeaderSaysJson(resp) /\ resp.body.json = "dict"
BodyIsArray(resp) == HeaderSaysJson(resp) /\ resp.body.json = "list"
HasParsedBody(resp) == ~resp.exc /\ (HeaderSaysJson(resp) => BodyIsJsonDocument(resp))
InTable(resp) == ~resp.exc /\ resp.status_code \in { 400, 401, 404, 413, 500, 504 }
Is2xx(resp) == ~resp.exc /\ resp.status_code \in 200..299
TableDetail(call) ==
    /\ ~call.out.ok
    /\ call.out.msg.kind = "TRUSTAR_ERR_FROM_SERVER"
    /\ call.out.msg.status = call.resp.status_code
\* The generic other-status error: a server error for a status outside the table.
IsOtherError(call) ==
    /\ ~call.out.ok
    /\ call.out.msg.kind = "TRUSTAR_ERR_FROM_SERVER"
    /\ call.out.msg.status \notin { 400, 401, 404, 413, 500, 504 }
CallsMade == { calls[i] : i \in DOMAIN calls }

\* C2 as stated: for every response whose status is in the fixed table, whatever
\* its content-type and body, the call fails with the table's default message,
\* or with the body's message when the body has a message field.
C2_AnyBodyTableMessage ==
    \A call \in CallsMade :
        InTable(call.resp) =>
            /\ TableDetail(call)
            /\ call.out.msg.detail =
                 IF call.resp.body.json = "dict" /\ "message" \in call.resp.body.keys
                 THEN call.resp.body.message
                 ELSE ERROR_RESPONSE_DICT[call.resp.status_code]

\* C3 as stated: every 2xx response whose parsed body is neither a JSON object
\* nor a JSON array ends in the unexpected-response error.
C3_Any2xxUnexpectedShape ==
    \A call \in CallsMade :
        ( /\ Is2xx(call.resp) /\ HasParsedBody(call.resp)
          /\ ~BodyIsObject(call.resp) /\ ~BodyIsArray(call.resp) ) =>
            /\ ~call.out.ok
            /\ call.out.msg.kind = "TRUSTAR_UNEXPECTED_RESPONSE"

\* C4 as stated: every 2xx response whose parsed payload is a JSON object or
\* array gives success with that payload, and the generic other-status error
\* is produced only for non-2xx statuses outside the fixed table.
C4_Any2xxSuccess ==
    \A call \in CallsMade :
        /\ ( Is2xx(call.resp) /\ (BodyIsObject(call.resp) \/ BodyIsArray(call.resp)) ) =>
               /\ call.out.ok
               /\ call.out.data.body = call.resp.body
        /\ IsOtherError(call) => (~call.resp.exc /\ ~Is2xx(call.resp))

\* C4 amended: every response with status 200 whose parsed payload is a JSON
\* object or array gives success with that payload, and the generic
\* other-status error is produced only for statuses other than 200 that are
\* outside the fixed table.
C4_Success ==
    \A call \in CallsMade :
        /\ ( ~call.resp.exc /\ call.resp.status_code = 200
             /\ (BodyIsObject(call.resp) \/ BodyIsArray(call.resp)) ) =>
               /\ call.out.ok
               /\ call.out.data.kind = call.resp.body.json
               /\ call.out.data.body = call.resp.body
        /\ IsOtherError(call) =>
               /\ ~call.resp.exc
               /\ call.resp.status_code = call.out.msg.status
               /\ call.resp.status_code # 200

C4_Witness ==
    \E call \in CallsMade :
        /\ call.resp.status_code = 200
        /\ BodyIsArray(call.resp)
        /\ call.out.ok
        /\ call.out.data.body.items = <<"r1", "r2">>

\* C5 as stated: the body is parsed as JSON exactly when the content-type
\* contains "json" and is kept as text otherwise, and a JSON-typed body that
\* does not parse gives the malformed-response error whatever the status code.
C5_JsonParse ==
    \A call \in CallsMade :
        ~call.resp.exc =>
            /\ (HeaderSaysJson(call.resp) /\ ~BodyIsJsonDocument(call.resp)) =>
                  /\ ~call.out.ok
                  /\ call.out.msg.kind = "TRUSTAR_ERR_JSON_PARSE"
            /\ (HeaderSaysJson(call.resp) /\ BodyIsJsonDocument(call.resp)
                                          /\ call.out.exc = NONE) =>
                  /\ call.out.data.kind = call.resp.body.json
                  /\ call.out.msg.kind # "TRUSTAR_ERR_JSON_PARSE"
            /\ (~HeaderSaysJson(call.resp) /\ call.out.exc = NONE) =>
                  /\ call.out.data.kind = "text"
                  /\ call.out.msg.kind # "TRUSTAR_ERR_JSON_PARSE"

(***************************************************************************)
(* Properties of the actions.                                              *)
(***************************************************************************)
Handled(names) == pc = "handled" /\ action.name \in names
DataActions == HuntActions \cup { "get_report", "submit_report", "on_poll" }
IsTokenCall(call) == call.out.req.endpoint = "/oauth/token"
IsDataCall(call) == ~IsTokenCall(call)
\* The token request succeeded and its payload holds a non-empty access_token.
YieldsToken(call) ==
    /\ IsTokenCall(call)
    /\ call.out.ok
    /\ "access_token" \in call.resp.body.keys
    /\ call.resp.body.access_token # ""
DataCalls == { i \in DOMAIN calls : IsDataCall(calls[i]) }

\* C1 as stated: in a hunt, get_report, submit_report or on_poll a data request
\* is issued only after a token request of the invocation yielded a non-empty
\* token, and carries that token as its bearer; when token generation fails no
\* data request is issued and the action ends with failed status.
C1_TokenBeforeData ==
    Handled(DataActions) =>
        /\ \A i \in DataCalls :
              /\ i > 1
              /\ YieldsToken(calls[1])
              /\ calls[i].out.req.auth = "bearer"
              /\ calls[i].out.req.bearer = calls[1].resp.body.access_token
        /\ (calls # <<>> /\ ~YieldsToken(calls[1])) =>
              /\ DataCalls = {}
              /\ ar.status = "failed"

\* The payload of the latest-indicators answer an on_poll ingests.
PollPayload == calls[2].resp.body.indicators
ContainerCreated ==
    /\ Handled({"on_poll"})
    /\ container # <<>>
    /\ container[1].ok
ArtifactIndexes == DOMAIN artifacts
Flagged == { i \in ArtifactIndexes : artifacts[i].artifact.run_automation }

\* C6 as stated: when the container of a payload with indicator values is
\* created, exactly one artifact is emitted per indicator value over all the
\* indicator types of the payload, and exactly one artifact carries the
\* automation flag: the one whose 1-based emission index is the total number
\* of indicator values of the payload.
C6_OneArtifactPerValue ==
    (ContainerCreated /\ SumLens(PollPayload) > 0) =>
        /\ \A t \in DOMAIN PollPayload : \A p \in 1..Len(PollPayload[t]) :
              Cardinality({ i \in ArtifactIndexes :
                              artifacts[i].ioc_key = t /\ artifacts[i].position = p }) = 1
        /\ Len(artifacts) = SumLens(PollPayload)
        /\ Flagged = { SumLens(PollPayload) }

\* The fixed table of the specification for the indicator types of the payloads.
TableName(t) == IF t = "IP" THEN "IP Artifact" ELSE "File Artifact"
TableField(t) == IF t = "IP" THEN "destinationAddress" ELSE "filePath"
TableTags(t) == IF t = "IP" THEN <<"ip">> ELSE <<"file name", "file path">>

\* C7: every artifact emitted for value v of type t has the artifact name of t,
\* a cef mapping with the single entry {cef field of t: v} and a cef_types
\* mapping with the single entry {cef field of t: contains tags of t}; the
\* artifacts of one type are emitted in the order of its value list.
C7_ArtifactShape ==
    ContainerCreated =>
        /\ \A i \in ArtifactIndexes :
              LET a == artifacts[i]
                  t == a.ioc_key
              IN  /\ t \in DOMAIN PollPayload
                  /\ a.position \in 1..Len(PollPayload[t])
                  /\ a.artifact.name = TableName(t)
                  /\ DOMAIN a.artifact.cef = { TableField(t) }
                  /\ a.artifact.cef[TableField(t)] = PollPayload[t][a.position]
                  /\ DOMAIN a.artifact.cef_types = { TableField(t) }
                  /\ a.artifact.cef_types[TableField(t)] = TableTags(t)
        /\ \A i, j \in ArtifactIndexes :
              (i < j /\ artifacts[i].ioc_key = artifacts[j].ioc_key) =>
                  artifacts[i].position < artifacts[j].position
        /\ \A t \in DOMAIN PollPayload \cap {"IP", "SOFTWARE"} :
              \A p \in 1..Len(PollPayload[t]) :
                  \E i \in ArtifactIndexes : artifacts[i].ioc_key = t /\ artifacts[i].position = p

C7_Witness ==
    /\ ContainerCreated
    /\ "SOFTWARE" \in DOMAIN PollPayload
    /\ PollPayload["SOFTWARE"] = <<"ioc-b", "ioc-a">>
    /\ \E i \in ArtifactIndexes :
          /\ i + 1 \in ArtifactIndexes
          /\ artifacts[i].artifact.cef["filePath"] = "ioc-b"
          /\ artifacts[i + 1].artifact.cef["filePath"] = "ioc-a"

\* The intervalSize parameters of the data requests of the invocation.
Scheduled == ~action.env.poll_now
WithInterval(i) == "intervalSize" \in calls[i].out.req.params.keys

\* C8 as stated: every poll-now invocation and the first-ever scheduled
\* invocation request the latest indicators with no intervalSize, and every
\* later scheduled invocation requests them with an intervalSize.
C8_FirstEverScheduled ==
    Handled({"on_poll"}) =>
        \A i \in DataCalls :
            IF Scheduled /\ hist.seen_before THEN WithInterval(i) ELSE ~WithInterval(i)

\* C8 amended: every poll-now invocation, and every scheduled invocation that
\* no scheduled invocation which got past token generation precedes, requests
\* the latest indicators with no intervalSize; every scheduled invocation that
\* follows a scheduled invocation which got past token generation requests
\* them with an intervalSize.
C8_FirstFetch ==
    Handled({"on_poll"}) =>
        \A i \in DataCalls :
            /\ calls[i].out.req.endpoint = "/1.x/indicators/latest"
            /\ IF Scheduled /\ hist.fetched_before THEN WithInterval(i) ELSE ~WithInterval(i)

C8_Witness ==
    /\ Handled({"on_poll"})
    /\ Scheduled
    /\ hist.fetched_before
    /\ DataCalls # {}
    /\ \A i \in DataCalls : WithInterval(i)

\* C9 as stated: the intervalSize of a scheduled poll is the ceiling of the
\* exact window length in hours, for every start and end in milliseconds.
C9_ExactCeiling ==
    Handled({"on_poll"}) =>
        \A i \in DataCalls :
            WithInterval(i) =>
                LET n == calls[i].out.req.params.intervalSize
                    ms == action.param.end_time - action.param.start_time
                IN  n * 3600000 >= ms /\ (n - 1) * 3600000 < ms

\* C9 amended: the intervalSize of a scheduled poll is the ceiling, in hours, of
\* the difference between the end and the start each truncated to whole
\* seconds; it is the ceiling of the window length when both are multiples of
\* 1000 (start 0, end 7,200,000 gives 2).
C9_CeilingOfSeconds ==
    Handled({"on_poll"}) =>
        \A i \in DataCalls :
            WithInterval(i) =>
                LET n == calls[i].out.req.params.intervalSize
                    start_ms == action.param.start_time - (action.param.start_time % 1000)
                    end_ms == action.param.end_time - (action.param.end_time % 1000)
                IN  /\ n * 3600000 >= end_ms - start_ms
                    /\ (n - 1) * 3600000 < end_ms - start_ms

C9_Witness ==
    /\ Handled({"on_poll"})
    /\ action.param.start_time = 0
    /\ action.param.end_time = 7200000
    /\ \E i \in DataCalls : WithInterval(i) /\ calls[i].out.req.params.intervalSize = 2

\* C10 as stated: submit_report fails before any network call when the
\* distribution type is ENCLAVE and no enclave ids are given, or when the
\* time-discovered input (a str or a unicode text) cannot be parsed; a
\* validation failure is never preceded by a request.
C10_ValidationBeforeNetwork ==
    Handled({"submit_report"}) =>
        LET p == action.param
            no_enclave == p.distribution_type = "ENCLAVE"
                          /\ (~p.enclave_ids.present \/ p.enclave_ids.text = <<>>)
            bad_time == /\ p.time_discovered.type \in {"str", "unicode"}
                        /\ p.time_discovered.parse = "error"
        IN  /\ (no_enclave \/ bad_time) =>
                  /\ ar.status = "failed"
                  /\ ar.msg.kind = IF bad_time THEN "TRUSTAR_ERR_TIME_FORMAT"
                                               ELSE "TRUSTAR_ERR_MISSING_ENCLAVE_ID"
                  /\ calls = <<>>
                  /\ raised = NONE
            /\ ar.msg.kind \in {"TRUSTAR_ERR_TIME_FORMAT", "TRUSTAR_ERR_MISSING_ENCLAVE_ID"} =>
                  calls = <<>>

(***************************************************************************)
(* Failures of the ingestion.                                              *)
(***************************************************************************)
ContainerFailed ==
    /\ Handled({"on_poll"})
    /\ container # <<>>
    /\ ~container[1].ok
\* The values of the payload whose type is one of the table.
MappedValues(m) == SumLens([t \in DOMAIN m \cap CefTypes |-> m[t]])
SomeArtifactFailed == \E i \in ArtifactIndexes : ~artifacts[i].ok

\* C11: when save_container fails in an on_poll, no save_artifact call is
\* made in that invocation.
C11_NoArtifactWithoutContainer == ContainerFailed => artifacts = <<>>

C11_Witness ==
    /\ ContainerFailed
    /\ MappedValues(PollPayload) = 2 * MaxValues
    /\ action.env.failing = {}
    /\ artifacts = <<>>

\* C12 as stated: when save_artifact calls of an ingestion fail, whichever
\* they are, the ingestion is not cut short: a save_artifact call is still
\* made for every indicator value of the batch, those after a failed call
\* included, and the on_poll ends with success status.
C12_FailedArtifactDoesNotAbort ==
    (ContainerCreated /\ SomeArtifactFailed) =>
        /\ Len(artifacts) = SumLens(PollPayload)
        /\ \A t \in DOMAIN PollPayload : \A p \in DOMAIN PollPayload[t] :
              \E i \in ArtifactIndexes : artifacts[i].ioc_key = t /\ artifacts[i].position = p
        /\ ar.status = "success"

\* The steps of an action that can fail, as the invocation saw them.
TokenGenerationFailed == calls # <<>> /\ IsTokenCall(calls[1]) /\ ~YieldsToken(calls[1])
DataRequestFailed == \E i \in DataCalls : ~calls[i].out.ok
ValidationFailed ==
    /\ action.name = "submit_report"
    /\ \/ ParseRaises(action.param.time_discovered)
       \/ MissingEnclaveId(action.param)
\* The status the host sees: test connectivity reports on the connector.
ActionStatus == IF action.name = "test_asset_connectivity" THEN conn.status ELSE ar.status

\* C13 as stated: whenever token generation, the data request, input
\* validation or container creation fails, the action ends with failed
\* status; an action ends with success status only if none of them failed.
C13_FailuresSurfaced ==
    pc = "handled" =>
        LET failed == \/ TokenGenerationFailed
                      \/ DataRequestFailed
                      \/ ValidationFailed
                      \/ ContainerFailed
        IN  /\ failed => ActionStatus = "failed"
            /\ ActionStatus = "success" => ~failed

(***************************************************************************)
(* Requests of an invocation.                                              *)
(***************************************************************************)
TokenCalls == { i \in DOMAIN calls : IsTokenCall(calls[i]) }

\* C14: an invocation issues at most one token request and at most one data
\* request (so a failed request is not issued again), and
\* test_asset_connectivity issues exactly one token request and no data
\* request.
C14_NoRetries ==
    pc = "handled" =>
        /\ Cardinality(TokenCalls) <= 1
        /\ Cardinality(DataCalls) <= 1
        /\ action.name = "test_asset_connectivity" =>
              /\ Cardinality(TokenCalls) = 1
              /\ DataCalls = {}

C14_Witness ==
    /\ Handled(DataActions)
    /\ Len(calls) = 2
    /\ YieldsToken(calls[1])
    /\ IsDataCall(calls[2])
    /\ calls[2].resp.exc
    /\ ~calls[2].out.ok

(***************************************************************************)
(* The hunt actions.                                                       *)
(***************************************************************************)
\* A hunt whose correlation request was made, and one it succeeded in with a
\* list of report ids.
HuntQueried == Handled(HuntActions) /\ Len(calls) = 2 /\ IsDataCall(calls[2])
HuntListed == HuntQueried /\ calls[2].out.ok /\ BodyIsArray(calls[2].resp)
ReportList == calls[2].resp.body.items

\* C15: in each of the eight hunt actions, when the correlation request
\* succeeds with a list of report ids, the result records are {report_id},
\* one per element of the list in its order, total_correlated_reports is the
\* length of the list, possible_reason is set exactly when the list is empty,
\* and the action ends with success status.
C15_HuntResult ==
    HuntListed =>
        /\ Len(ar.data) = Len(ReportList)
        /\ \A i \in DOMAIN ReportList : ar.data[i] = [report_id |-> ReportList[i]]
        /\ "total_correlated_reports" \in ar.summary.keys
        /\ ar.summary.total_correlated_reports = Len(ReportList)
        /\ ("possible_reason" \in ar.summary.keys) <=> (ReportList = <<>>)
        /\ ar.status = "success"
        /\ ar.added

C15_Witness ==
    /\ HuntListed
    /\ action.name = "hunt_registry_key"
    /\ ReportList = <<"r1", "r2">>
    /\ ar.data = << [report_id |-> "r1"], [report_id |-> "r2"] >>
    /\ ar.summary.keys = {"total_correlated_reports"}

\* The query parameters of the correlation request.
HuntQuery == calls[2].out.req.params

\* C16 as stated: in all eight hunt actions the q parameter sent to the
\* correlation-search endpoint is exactly the value the caller supplied.
C16_QueryIsInput ==
    HuntQueried => (HuntQuery.keys = {"q"} /\ HuntQuery.q = action.param.ioc)

\* C16: the eight hunt actions send one parameter, q, to the
\* correlation-search endpoint; q is the value the caller supplied, except
\* that hunt_domain, given a URL, sends the host of the URL.
C16_QueryIsInputOrHost ==
    HuntQueried =>
        /\ calls[2].out.req.endpoint = TRUSTAR_HUNT_ACTIONS_ENDPOINT
        /\ HuntQuery.keys = {"q"}
        /\ HuntQuery.q = IF action.name = "hunt_domain" /\ action.param.ioc = "http://evil.example/a"
                         THEN "evil.example"
                         ELSE action.param.ioc

C16_Witness ==
    /\ HuntQueried
    /\ action.name = "hunt_domain"
    /\ action.param.ioc = "http://evil.example/a"
    /\ HuntQuery.q = "evil.example"

(***************************************************************************)
(* Token generation on an accepted payload.                                *)
(***************************************************************************)
\* C17 as stated: when the token request is accepted by _make_rest_call (a
\* JSON object or a JSON array) and the payload holds no non-empty
\* access_token, the invocation ends with the token-missing failure set on
\* the action result, and makes no data request.
C17_TokenMissing ==
    (pc = "handled" /\ calls # <<>> /\ IsTokenCall(calls[1]) /\ calls[1].out.ok
        /\ ~YieldsToken(calls[1])) =>
        /\ ar.status = "failed"
        /\ ar.msg.kind = "TRUSTAR_TOKEN_GENERATION_ERR"
        /\ raised = NONE
        /\ DataCalls = {}

(***************************************************************************)
(* The identifier of an artifact.                                          *)
(***************************************************************************)
\* The fields of an artifact but for the automation flag.
Unflagged(a) == [a EXCEPT !.run_automation = FALSE]

\* C18: the source_data_identifier of an emitted artifact is determined by
\* its fields (name, description, cef, cef_types, container id, automation
\* flag): two artifacts with equal fields have the same identifier, whatever
\* their value, type or place in the ingestion, and the flag is among the
\* fields the identifier is computed from (two artifacts that differ in the
\* flag alone have different identifiers).
C18_IdentifierOfFields ==
    Handled({"on_poll"}) =>
        \A i, j \in ArtifactIndexes :
            /\ artifacts[i].artifact = artifacts[j].artifact =>
                  artifacts[i].source_data_identifier = artifacts[j].source_data_identifier
            /\ (/\ Unflagged(artifacts[i].artifact) = Unflagged(artifacts[j].artifact)
                /\ artifacts[i].artifact.run_automation # artifacts[j].artifact.run_automation) =>
                  artifacts[i].source_data_identifier # artifacts[j].source_data_identifier

C18_Witness ==
    /\ Handled({"on_poll"})
    /\ Len(artifacts) = 2
    /\ Unflagged(artifacts[2].artifact) = artifacts[1].artifact
    /\ ~artifacts[1].artifact.run_automation
    /\ artifacts[2].artifact.run_automation
    /\ artifacts[2].source_data_identifier # artifacts[1].source_data_identifier

(***************************************************************************)
(* The time discovered of a submitted report.                              *)
(***************************************************************************)
\* A time-discovered input that can be parsed: a text dateutil parses, or a datetime.
Parseable(t) == t.parse = "ok" /\ t.type \in {"str", "unicode", "datetime"}
\* The instant an input denotes, as its hour in UTC: an input without
\* timezone is local time.
InputInstant(t, local_off) == IF t.tz = "aware" THEN t.wall - t.off ELSE t.wall - local_off
Submitted == Handled({"submit_report"}) /\ Len(calls) = 2 /\ IsDataCall(calls[2])
SubmittedTime == calls[2].out.req.data.payload.incidentReport.timeDiscovered

\* C19 as stated: for every parseable time-discovered input the timeDiscovered
\* of the request body is expressed in UTC (offset zero) and denotes the
\* instant of the input.
C19_TimeInUtc ==
    (Submitted /\ Parseable(action.param.time_discovered)) =>
        /\ SubmittedTime.off = 0
        /\ SubmittedTime.wall - SubmittedTime.off =
              InputInstant(action.param.time_discovered, action.env.local_off)

(***************************************************************************)
(* The validator of IP parameters.                                         *)
(***************************************************************************)
IpChecked == pc = "validate" /\ validated.result # NONE
\* The input as the claim reads it: a valid address of either family, alone
\* or with one prefix that is an integer.
ValidAddress(in) == in.address.v4 \/ in.address.v6
Malformed(in) ==
    \/ in.pieces > 2
    \/ in.pieces = 2 /\ ~in.prefix.is_int
    \/ ~ValidAddress(in)
FamilyRange(in) == IF in.address.v4 THEN 0..32 ELSE 0..128
PrefixInRange(in) == in.pieces = 1 \/ in.prefix.value \in FamilyRange(in)

\* C20 as stated: _is_ip returns false, without raising, for every malformed
\* input and for every prefix outside 0..32 on an IPv4 address or outside
\* 0..128 on an IPv6 address, and returns true for every valid IPv4 or IPv6
\* address whose prefix is absent or within the range of its family.
C20_IpValidator ==
    IpChecked =>
        validated.result = IF Malformed(validated.input) \/ ~PrefixInRange(validated.input)
                           THEN "false" ELSE "true"

(***************************************************************************)
(* The persisted state.                                                    *)
(***************************************************************************)
\* first_run as the code reads it: absent counts as true.
FirstRun(state) == DictGet(state, "first_run", TRUE)
\* finalize() of an invocation that is no scheduled on_poll.
SavesUnscheduled ==
    /\ pc = "handled"
    /\ pc' = "idle"
    /\ action.name # "on_poll" \/ action.env.poll_now

\* C21: over any sequence of invocations with the state loaded in initialize
\* and saved in finalize, once the saved first_run is false it is never true
\* again, and every poll-now invocation and every invocation of another
\* action (hunts, get_report, submit_report, test connectivity) saves the
\* state it loaded unchanged.
C21_FirstRunMonotonic ==
    [][/\ ~FirstRun(saved_state) => ~FirstRun(saved_state')
       /\ SavesUnscheduled => saved_state' = saved_state]_vars

C21_Witness ==
    /\ pc = "idle"
    /\ action.name = "on_poll"
    /\ action.env.poll_now
    /\ DataCalls # {}
    /\ ~FirstRun(saved_state)

\* A scheduled on_poll, while it is handled and after its state is saved.
ScheduledPoll == action.name = "on_poll" /\ pc \in {"handled", "idle"} /\ Scheduled
\* Its request for the indicators was the one of a first run, and failed.
FirstFetchFailed ==
    /\ Len(calls) = 2
    /\ IsDataCall(calls[2])
    /\ ~WithInterval(2)
    /\ ~calls[2].out.ok

\* C22: in a scheduled on_poll first_run is cleared before the indicators
\* request and is not restored when the request fails: after a failed first
\* scheduled fetch the state, as held and as saved, has first_run false; when
\* token generation fails the state is the one loaded; and a scheduled poll
\* requests with intervalSize exactly when the state it loaded has first_run
\* false (so the poll after a failed first fetch filters by intervalSize, and
\* the poll after a failed token generation is a first run again).
C22_ClearedBeforeFetch ==
    ScheduledPoll =>
        /\ FirstFetchFailed => ~FirstRun(IF pc = "handled" THEN app_state ELSE saved_state)
        /\ (pc = "handled" /\ TokenGenerationFailed) => app_state = saved_state
        /\ pc = "handled" => \A i \in DataCalls : WithInterval(i) <=> ~FirstRun(saved_state)

C22_Witness ==
    /\ ScheduledPoll
    /\ pc = "idle"
    /\ FirstFetchFailed
    /\ calls[2].resp.exc
    /\ "first_run" \in DOMAIN saved_state
    /\ ~saved_state["first_run"]

====
